---- MODULE Spec2Model ----
(***************************************************************************)
(* Verification model of pkg/doc/verifiable/credential.go (the expirable   *)
(* schema cache, the credential schema loader, the NewCredential pipeline  *)
(* with its re-serialisation, CreateCustomCredential) and of the composite *)
(* key export / import of keyio/composite_key_export.go.                   *)
(*                                                                         *)
(* The specifications of the module:                                       *)
(*   Spec        concurrent callers of ExpirableSchemaCache.Put and Get    *)
(*               over one shared cache and one clock;                      *)
(*   SpecLoader  concurrent callers of getJSONSchema over that cache;      *)
(*   SpecCred    one sequential NewCredential / MarshalJSON /              *)
(*               NewCredential run over a bounded family of documents      *)
(*               and options;                                              *)
(*   SpecPhase2  postValidateCredential on every built credential under    *)
(*               every value of the validation mode;                       *)
(*   SpecCustom  CreateCustomCredential over lists of producers;           *)
(*   SpecKey     PubKeyWriter.Write over keysets, and                      *)
(*               PublicKeyToKeysetHandle followed by                       *)
(*               ExtractPrimaryPublicKey over PublicKey records.           *)
(***************************************************************************)
EXTENDS Integers, Sequences, FiniteSets, TLC

VARIABLES
    cache,       \* fastcache.Cache of the ExpirableSchemaCache: key -> bytes, or NoEntry
    now,         \* the wall clock, in ticks (TicksPerSec ticks make one Unix second)
    expiration,  \* ExpirableSchemaCache.expiration, in ticks
    proc,        \* per caller: position in Put / Get / getJSONSchema and its locals
    stamp,       \* history: per key, the clock reading and value of the latest direct Put
    cred,        \* the NewCredential run: input, options, stage and intermediate values
    keyio        \* the keyio call: operation, input, position and results

vars == <<cache, now, expiration, proc, stamp, cred, keyio>>

(***************************************************************************)
(* Bounds of the model.                                                    *)
(***************************************************************************)
TicksPerSec == 2
MaxNow == 3
MaxTTL == 2

Procs == {"p1", "p2"}
U1 == "https://schema.example/v1"
U2 == "https://schema.example/v2"
Keys == {U1, U2}
Values == {<<7>>, <<8, 9>>}

NoEntry == << >>
NoStamp == [t |-> -1, v |-> << >>]

(***************************************************************************)
(* time.Time.Unix(): whole seconds of a clock reading.                     *)
(***************************************************************************)
Unix(t) == t \div TicksPerSec

(***************************************************************************)
(* binary.LittleEndian.PutUint64 / Uint64 on 8 bytes.  Expiry stamps are   *)
(* non-negative here, so the int64 -> uint64 -> int64 casts change nothing.*)
(***************************************************************************)
RECURSIVE LEBytes(_, _)
LEBytes(x, n) == IF n = 0 THEN << >> ELSE <<x % 256>> \o LEBytes(x \div 256, n - 1)

PutUint64(x) == LEBytes(x, 8)

RECURSIVE LEValue(_)
LEValue(b) == IF b = << >> THEN 0 ELSE Head(b) + 256 * LEValue(Tail(b))

Uint64(b) == LEValue(b)

(***************************************************************************)
(* fastcache.Cache: Set, HasGet and Del are its atomic operations.         *)
(***************************************************************************)
CacheSet(c, k, ve) == [c EXCEPT ![k] = ve]
CacheHas(c, k) == c[k] # NoEntry
CacheDel(c, k) == [c EXCEPT ![k] = NoEntry]

(***************************************************************************)
(* ExpirableSchemaCache.Put: the stored bytes, 8 bytes of expiry stamp     *)
(* followed by the value.                                                  *)
(***************************************************************************)
PutEntry(v, t, ttl) == PutUint64(Unix(t + ttl)) \o v

(***************************************************************************)
(* ExpirableSchemaCache.Get, after HasGet found bytes b: the expiry test   *)
(* and the value returned.                                                 *)
(***************************************************************************)
EntryExpires(b) == Uint64(SubSeq(b, 1, 8))
EntryExpired(b, t) == EntryExpires(b) < Unix(t)
EntryValue(b) == SubSeq(b, 9, Len(b))

(***************************************************************************)
(* Errors are a message and, where the code prints one, a status code.     *)
(***************************************************************************)
NoErr == [label |-> "", msg |-> "", code |-> 0]
Err(m) == [label |-> "", msg |-> m, code |-> 0]
ErrCode(m, c) == [label |-> "", msg |-> m, code |-> c]
\* fmt.Errorf("<label>: %w", e): the error of a stage, under the stage's label.
Wrap(label, e) == [e EXCEPT !.label = label]

StatusOK == 200
Statuses == {StatusOK, 201, 404}

(***************************************************************************)
(* What the HTTP client can answer to a GET: a transport failure, or a     *)
(* response with a status and a body whose read may fail.                  *)
(***************************************************************************)
Responses ==
    {[transport |-> FALSE, status |-> s, body |-> v, readErr |-> FALSE] :
        s \in Statuses, v \in Values}
    \cup {[transport |-> TRUE, status |-> 0, body |-> << >>, readErr |-> FALSE]}
    \cup {[transport |-> FALSE, status |-> StatusOK, body |-> << >>, readErr |-> TRUE]}

\* loadJSONSchema without the check of the status code.
loadJSONSchemaAnyStatus(r) ==
    IF r.transport
    THEN [bytes |-> << >>, err |-> Err("load credential schema"), closes |-> 0]
    ELSE IF r.readErr
    THEN [bytes |-> << >>, err |-> Err("credential schema: read response body"),
          closes |-> 1]
    ELSE [bytes |-> r.body, err |-> NoErr, closes |-> 1]

\* loadJSONSchema closing the body at the end of the success path only.
loadJSONSchemaCloseOnSuccess(r) ==
    IF r.transport
    THEN [bytes |-> << >>, err |-> Err("load credential schema"), closes |-> 0]
    ELSE IF r.status # StatusOK
    THEN [bytes |-> << >>,
          err |-> ErrCode("credential schema endpoint HTTP failure", r.status),
          closes |-> 0]
    ELSE IF r.readErr
    THEN [bytes |-> << >>, err |-> Err("credential schema: read response body"),
          closes |-> 0]
    ELSE [bytes |-> r.body, err |-> NoErr, closes |-> 1]

(***************************************************************************)
(* loadJSONSchema on the client's answer r: the bytes or the error, and    *)
(* how many times the response body was closed (the deferred Close).       *)
(***************************************************************************)
loadJSONSchema(r) ==
    IF r.transport
    THEN [bytes |-> << >>, err |-> Err("load credential schema"), closes |-> 0]
    ELSE IF r.status # StatusOK
    THEN [bytes |-> << >>,
          err |-> ErrCode("credential schema endpoint HTTP failure", r.status),
          closes |-> 1]
    ELSE IF r.readErr
    THEN [bytes |-> << >>, err |-> Err("credential schema: read response body"),
          closes |-> 1]
    ELSE [bytes |-> r.body, err |-> NoErr, closes |-> 1]

(***************************************************************************)
(* Callers of the shared cache.  A caller is between calls ("idle"), or    *)
(* inside ExpirableSchemaCache.Get between its HasGet and its expiry test  *)
(* ("get_check"), or holds Get's result ("get_done"), or inside            *)
(* getJSONSchema after a successful fetch ("gjs_put") or at its return     *)
(* ("gjs_done").  One step is one operation of the underlying cache, or    *)
(* one HTTP exchange; a clock reading belongs to the step that uses it.    *)
(***************************************************************************)
NoRes == [ok |-> FALSE, val |-> << >>, del |-> FALSE]
NoLast == [k |-> "", t |-> -1]

IdleProc(last) ==
    [pc |-> "idle", caller |-> "", k |-> "", b |-> NoEntry, g |-> NoStamp,
     res |-> NoRes, v |-> << >>, out |-> << >>, err |-> NoErr,
     calls |-> 0, last |-> last, within |-> FALSE]

\* Put (lines 294-305), one step: stamp with the clock, Set.
Put(p, k, v) ==
    /\ proc[p].pc = "idle"
    /\ cache' = CacheSet(cache, k, PutEntry(v, now, expiration))
    /\ stamp' = [stamp EXCEPT ![k] = [t |-> now, v |-> v]]
    /\ UNCHANGED <<now, expiration, proc, cred, keyio>>

\* Whether a resolution of k beginning at clock reading t is the caller's
\* next one after its own fetch-and-Put of k, still within the TTL.
WithinTTL(last, k, t) == last.k = k /\ t <= last.t + expiration

\* Get, first step (line 310): HasGet.  A missing key returns at once.
GetHasGet(p, k, caller) ==
    /\ proc[p].pc = "idle"
    /\ LET within == caller = "gjs" /\ WithinTTL(proc[p].last, k, now)
           base == [IdleProc(IF caller = "gjs" THEN NoLast ELSE proc[p].last)
                        EXCEPT !.caller = caller, !.k = k, !.within = within,
                               !.last = IF caller = "gjs" /\ within
                                        THEN proc[p].last
                                        ELSE IF caller = "gjs" THEN NoLast
                                        ELSE proc[p].last]
       IN  proc' = [proc EXCEPT ![p] =
                IF CacheHas(cache, k)
                THEN [base EXCEPT !.pc = "get_check", !.b = cache[k],
                                  !.g = IF caller = "client" THEN stamp[k] ELSE NoStamp]
                ELSE [base EXCEPT !.pc = "get_done"]]
    /\ UNCHANGED <<cache, now, expiration, stamp, cred, keyio>>

\* The expiry test of Get on bytes b at clock reading t (line 316).
\* Get's expiry test with the boundary second counted as expired.
GetExpiredInclusive(b, t) == EntryExpires(b) <= Unix(t)

GetExpired(b, t) == EntryExpired(b, t)

\* Get, second step (lines 315-322): read the clock, test the stamp, and
\* either Del the key and miss, or return the value.
GetCheck(p) ==
    /\ proc[p].pc = "get_check"
    /\ LET me == proc[p]
           within == me.within /\ WithinTTL(me.last, me.k, now)
       IN  IF GetExpired(me.b, now)
           THEN /\ cache' = CacheDel(cache, me.k)
                /\ proc' = [proc EXCEPT ![p] =
                       [me EXCEPT !.pc = "get_done", !.within = within,
                                  !.b = NoEntry,
                                  !.res = [ok |-> FALSE, val |-> << >>, del |-> TRUE]]]
           ELSE /\ cache' = cache
                /\ proc' = [proc EXCEPT ![p] =
                       [me EXCEPT !.pc = "get_done", !.within = within,
                                  !.b = NoEntry,
                                  !.res = [ok |-> TRUE, val |-> EntryValue(me.b),
                                           del |-> FALSE]]]
    /\ UNCHANGED <<now, expiration, stamp, cred, keyio>>

\* Get returns to a direct caller of the cache.
GetReturn(p) ==
    /\ proc[p].pc = "get_done"
    /\ proc[p].caller = "client"
    /\ proc' = [proc EXCEPT ![p] = IdleProc(proc[p].last)]
    /\ UNCHANGED <<cache, now, expiration, stamp, cred, keyio>>

\* getJSONSchema with a cache wired (lines 862-865): a hit returns the
\* cached bytes.
GjsHit(p) ==
    /\ proc[p].pc = "get_done"
    /\ proc[p].caller = "gjs"
    /\ proc[p].res.ok
    /\ proc' = [proc EXCEPT ![p] =
           [proc[p] EXCEPT !.pc = "gjs_done", !.out = proc[p].res.val]]
    /\ UNCHANGED <<cache, now, expiration, stamp, cred, keyio>>

\* getJSONSchema on a miss (lines 867-870): one GET through loadJSONSchema.
GjsFetch(p) ==
    /\ proc[p].pc = "get_done"
    /\ proc[p].caller = "gjs"
    /\ ~proc[p].res.ok
    /\ \E r \in Responses :
         LET got == loadJSONSchema(r)
         IN  proc' = [proc EXCEPT ![p] =
                 IF got.err # NoErr
                 THEN [proc[p] EXCEPT !.pc = "gjs_done", !.err = got.err,
                                      !.calls = @ + 1]
                 ELSE [proc[p] EXCEPT !.pc = "gjs_put", !.v = got.bytes,
                                      !.calls = @ + 1]]
    /\ UNCHANGED <<cache, now, expiration, stamp, cred, keyio>>

\* getJSONSchema after a fetch (lines 872-875): Put the bytes, return them.
GjsPut(p) ==
    /\ proc[p].pc = "gjs_put"
    /\ cache' = CacheSet(cache, proc[p].k, PutEntry(proc[p].v, now, expiration))
    /\ proc' = [proc EXCEPT ![p] =
           [proc[p] EXCEPT !.pc = "gjs_done", !.out = proc[p].v, !.v = << >>,
                           !.last = [k |-> proc[p].k, t |-> now]]]
    /\ UNCHANGED <<now, expiration, stamp, cred, keyio>>

\* getJSONSchema returns.
GjsReturn(p) ==
    /\ proc[p].pc = "gjs_done"
    /\ proc' = [proc EXCEPT ![p] = IdleProc(proc[p].last)]
    /\ UNCHANGED <<cache, now, expiration, stamp, cred, keyio>>

\* The clock advances by one tick.  A caller's record of its own last
\* fetch-and-Put is dropped once the TTL counted from it has passed.
Tick ==
    /\ now < MaxNow
    /\ now' = now + 1
    /\ proc' = [p \in Procs |->
           IF proc[p].last # NoLast /\ now + 1 > proc[p].last.t + expiration
           THEN [proc[p] EXCEPT !.last = NoLast, !.within = FALSE]
           ELSE proc[p]]
    /\ UNCHANGED <<cache, expiration, stamp, cred, keyio>>

NoCred == [stage |-> "none"]
NoKeyCall == [pc |-> "none"]

Init ==
    /\ cache = [k \in Keys |-> NoEntry]
    /\ now = 0
    /\ expiration \in 0..MaxTTL
    /\ proc = [p \in Procs |-> IdleProc(NoLast)]
    /\ stamp = [k \in Keys |-> NoStamp]
    /\ keyio = NoKeyCall
    /\ cred = NoCred

Next ==
    \/ \E p \in Procs, k \in Keys, v \in Values : Put(p, k, v)
    \/ \E p \in Procs, k \in Keys : GetHasGet(p, k, "client")
    \/ \E p \in Procs : GetCheck(p)
    \/ \E p \in Procs : GetReturn(p)
    \/ Tick

Spec == Init /\ [][Next]_vars

NextLoader ==
    \/ \E p \in Procs, k \in Keys : GetHasGet(p, k, "gjs")
    \/ \E p \in Procs : GetCheck(p)
    \/ \E p \in Procs : GjsHit(p)
    \/ \E p \in Procs : GjsFetch(p)
    \/ \E p \in Procs : GjsPut(p)
    \/ \E p \in Procs : GjsReturn(p)
    \/ Tick

SpecLoader == Init /\ [][NextLoader]_vars

(***************************************************************************)
(* JSON documents.  A polymorphic member is a kind ("absent", "str",       *)
(* "arr", "other") and a sequence of elements; an element is a string      *)
(* ("s"), an object ("o") or a number ("n").                               *)
(***************************************************************************)
baseContext == "https://www.w3.org/2018/credentials/v1"
vcType == "VerifiableCredential"
jsonSchema2018Type == "JsonSchemaValidator2018"

S(v) == [t |-> "s", v |-> v]
O(v) == [t |-> "o", v |-> v]
N(v) == [t |-> "n", v |-> v]

JAbsent == [k |-> "absent", a |-> << >>]
JOther == [k |-> "other", a |-> << >>]
JStr(v) == [k |-> "str", a |-> <<S(v)>>]
JArr(a) == [k |-> "arr", a |-> a]

\* A member of the issuer object: absent, a string, or a non-string.
MAbsent == [k |-> "absent", v |-> ""]
MStr(v) == [k |-> "str", v |-> v]
MOther == [k |-> "other", v |-> ""]

IssAbsent == [k |-> "absent", s |-> "", id |-> MAbsent, name |-> MAbsent]
IssOther == [k |-> "other", s |-> "", id |-> MAbsent, name |-> MAbsent]
IssStr(v) == [k |-> "str", s |-> v, id |-> MAbsent, name |-> MAbsent]
IssObj(id, name) == [k |-> "obj", s |-> "", id |-> id, name |-> name]

TypedID(id, type) == [id |-> id, type |-> type]

\* Strings that gojsonschema's "uri" format accepts: they carry a scheme.
URIs == {baseContext, "https://ctx.example/x", "https://ctx.example/y",
         "did:example:123", "https://schema.example/v1",
         "https://schema.example/v2"}
IsURI(v) == v \in URIs

\* The sequences over elems of length at most n.
RECURSIVE SeqsUpTo(_, _)
SeqsUpTo(elems, n) ==
    IF n = 0 THEN {<< >>}
    ELSE LET shorter == SeqsUpTo(elems, n - 1)
         IN  shorter \cup {Append(q, x) : q \in shorter, x \in elems}

SeqRange(q) == {q[i] : i \in 1..Len(q)}
IsUnique(q) == \A i, j \in 1..Len(q) : i # j => q[i] # q[j]

(***************************************************************************)
(* defaultSchema (lines 27-184) as a predicate on a document, member by    *)
(* member, with JSON Schema's meaning of each keyword.                     *)
(***************************************************************************)
\* "@context": an array; item 0 a string matching the base context; every
\* further item an object or a string; unique items.
DefaultContextOK(c) ==
    /\ c.k = "arr"
    /\ Len(c.a) >= 1 => c.a[1] = S(baseContext)
    /\ \A i \in 2..Len(c.a) : c.a[i].t \in {"o", "s"}
    /\ IsUnique(c.a)

\* "type": exactly one of (an array whose item 0, if any, is the string
\* VerifiableCredential) and (the string VerifiableCredential); an array
\* has at least 2 items (minItems beside the oneOf).
DefaultTypeOK(ty) ==
    /\ \/ ty.k = "arr" /\ (Len(ty.a) >= 1 => ty.a[1] = S(vcType))
       \/ ty.k = "str" /\ ty.a[1].v = vcType
    /\ ty.k = "arr" => Len(ty.a) >= 2

\* "issuer": a string of format uri, or an object with a string "id".
DefaultIssuerOK(iss) ==
    \/ iss.k = "str" /\ IsURI(iss.s)
    \/ iss.k = "obj" /\ iss.id.k = "str"

\* "credentialSchema", when present: a typedID or an array of typedIDs.
DefaultTypedIDOK(x) == IsURI(x.id)
DefaultSchemasOK(sc) ==
    \/ sc.k = "absent"
    \/ sc.k = "obj" /\ DefaultTypedIDOK(sc.a[1])
    \/ sc.k = "arr" /\ \A i \in 1..Len(sc.a) : DefaultTypedIDOK(sc.a[i])

DefaultSchemaValid(d) ==
    /\ d.ctx.k # "absent" /\ d.typ.k # "absent" /\ d.issuer.k # "absent"
    /\ d.subject # "absent" /\ d.issued # "absent"
    /\ DefaultContextOK(d.ctx)
    /\ DefaultTypeOK(d.typ)
    /\ d.subject \in {"obj", "arr"}
    /\ DefaultIssuerOK(d.issuer)
    /\ DefaultSchemasOK(d.schema)

(***************************************************************************)
(* Custom schema documents, by their bytes: one that accepts every         *)
(* document and one that rejects every document.                           *)
(***************************************************************************)
PermissiveSchema == <<7>>
StrictSchema == <<8, 9>>

(***************************************************************************)
(* The polymorphic field decoders.                                         *)
(***************************************************************************)
RECURSIVE StringsOf(_)
StringsOf(a) ==
    IF a = << >> THEN << >>
    ELSE IF Head(a).t = "s" THEN <<Head(a).v>> \o StringsOf(Tail(a))
    ELSE StringsOf(Tail(a))

RECURSIVE NonStringsOf(_)
NonStringsOf(a) ==
    IF a = << >> THEN << >>
    ELSE IF Head(a).t # "s" THEN <<Head(a)>> \o NonStringsOf(Tail(a))
    ELSE NonStringsOf(Tail(a))

\* decodeContext: a string, or a non-empty array of strings and objects;
\* strings go to context in order, the first must be the base context;
\* non-strings go to customContext.
decodeContext(c) ==
    LET strs == StringsOf(c.a)
        bad == \/ c.k \notin {"str", "arr"}
               \/ c.a = << >>
               \/ \E i \in 1..Len(c.a) : c.a[i].t = "n"
               \/ strs = << >>
               \/ strs[1] # baseContext
    IN  IF bad
        THEN [context |-> << >>, custom |-> << >>,
              err |-> Err("credential context of unknown type")]
        ELSE [context |-> strs, custom |-> NonStringsOf(c.a), err |-> NoErr]

\* decodeType: a string, or a non-empty array of strings, order kept.
decodeType(ty) ==
    IF \/ ty.k \notin {"str", "arr"}
       \/ ty.a = << >>
       \/ \E i \in 1..Len(ty.a) : ty.a[i].t # "s"
    THEN [types |-> << >>, err |-> Err("credential type of unknown type")]
    ELSE [types |-> StringsOf(ty.a), err |-> NoErr]

NoIssuer == [id |-> "", name |-> ""]

\* decodeIssuer (lines 500-540).
decodeIssuer(iss) ==
    CASE iss.k = "str" -> [issuer |-> [id |-> iss.s, name |-> ""], err |-> NoErr]
      [] iss.k = "obj" ->
            IF iss.id.k = "other"
            THEN [issuer |-> NoIssuer, err |-> Err("value of key 'id' is not a string")]
            ELSE IF iss.id.k = "absent" \/ iss.id.v = ""
            THEN [issuer |-> NoIssuer, err |-> Err("issuer ID is not defined")]
            ELSE IF iss.name.k = "other"
            THEN [issuer |-> NoIssuer, err |-> Err("value of key 'name' is not a string")]
            ELSE [issuer |-> [id |-> iss.id.v,
                              name |-> IF iss.name.k = "str" THEN iss.name.v ELSE ""],
                  err |-> NoErr]
      [] OTHER -> [issuer |-> NoIssuer, err |-> Err("unsupported format of issuer")]

\* decodeCredentialSchema (lines 545-562): a single object, else an array.
decodeCredentialSchema(sc) ==
    IF sc.k = "obj" THEN [schemas |-> <<sc.a[1]>>, err |-> NoErr]
    ELSE IF sc.k = "arr" THEN [schemas |-> sc.a, err |-> NoErr]
    ELSE [schemas |-> << >>,
          err |-> Err("verifiable credential schema of unsupported format")]

(***************************************************************************)
(* Re-serialisation (lines 796-802 and 955-1001).                          *)
(***************************************************************************)
RECURSIVE AsStrings(_)
AsStrings(q) == IF q = << >> THEN << >> ELSE <<S(Head(q))>> \o AsStrings(Tail(q))

\* issuerToSerialize emitting the object form for every issuer.
issuerAlwaysObject(issuer) ==
    IssObj(IF issuer.id # "" THEN MStr(issuer.id) ELSE MAbsent,
           IF issuer.name # "" THEN MStr(issuer.name) ELSE MAbsent)

issuerToSerialize(issuer) ==
    IF issuer.name # ""
    THEN IssObj(IF issuer.id # "" THEN MStr(issuer.id) ELSE MAbsent, MStr(issuer.name))
    ELSE IssStr(issuer.id)

typesToSerialize(types) ==
    IF Len(types) = 1 THEN JStr(types[1]) ELSE JArr(AsStrings(types))

\* contextToSerialize emitting an array whatever the cardinality.
contextAlwaysArray(context, cContext) == JArr(AsStrings(context) \o cContext)

contextToSerialize(context, cContext) ==
    IF Len(cContext) > 0 THEN JArr(AsStrings(context) \o cContext)
    ELSE IF Len(context) = 1 THEN JStr(context[1])
    ELSE JArr(AsStrings(context))

\* Credential.raw and MarshalJSON: the document emitted for credential vc.
\* Schemas is a slice held in an interface member, which omitempty keeps
\* even when the slice is empty.
MarshalJSON(vc) ==
    [ctx |-> contextToSerialize(vc.context, vc.customContext),
     typ |-> typesToSerialize(vc.types),
     issuer |-> issuerToSerialize(vc.issuer),
     subject |-> vc.subject,
     issued |-> vc.issued,
     schema |-> JArr(vc.schemas)]

(***************************************************************************)
(* Credential options (lines 421-491) and parseCredentialOpts (773-787).   *)
(***************************************************************************)
baseContextValidation == 0
baseContextExtendedValidation == 1
jsonldValidation == 2

Opt(o) == [o |-> o, ctxs |-> {}, typs |-> {}, wired |-> FALSE]
WithNoCustomSchemaCheck == Opt("NoCustomSchemaCheck")
WithPublicKeyFetcher == Opt("PublicKeyFetcher")
WithJSONLDValidation == Opt("JSONLDValidation")
WithBaseContextValidation == Opt("BaseContextValidation")
WithCredentialSchemaLoader(wired) ==
    [o |-> "CredentialSchemaLoader", ctxs |-> {}, typs |-> {}, wired |-> wired]
WithBaseContextExtendedValidation(customContexts, customTypes) ==
    [o |-> "BaseContextExtendedValidation", ctxs |-> customContexts,
     typs |-> customTypes, wired |-> FALSE]

\* The context allow-list without the base context added.
AllowedContextsAsGiven(customContexts) == customContexts

\* The allow-lists that WithBaseContextExtendedValidation builds (479-489).
AllowedContexts(customContexts) == customContexts \cup {baseContext}
AllowedTypes(customTypes) == customTypes \cup {vcType}

ApplyOpt(opts, opt) ==
    CASE opt.o = "NoCustomSchemaCheck" -> [opts EXCEPT !.disabledCustomSchema = TRUE]
      [] opt.o = "PublicKeyFetcher" -> [opts EXCEPT !.fetcher = TRUE]
      [] opt.o = "CredentialSchemaLoader" ->
            [opts EXCEPT !.loaderSet = TRUE, !.cacheWired = opt.wired]
      [] opt.o = "JSONLDValidation" -> [opts EXCEPT !.mode = jsonldValidation]
      [] opt.o = "BaseContextValidation" -> [opts EXCEPT !.mode = baseContextValidation]
      [] opt.o = "BaseContextExtendedValidation" ->
            [opts EXCEPT !.mode = baseContextExtendedValidation,
                         !.allowedCustomContexts = AllowedContexts(opt.ctxs),
                         !.allowedCustomTypes = AllowedTypes(opt.typs)]

RECURSIVE ApplyOpts(_, _)
ApplyOpts(opts, list) ==
    IF list = << >> THEN opts ELSE ApplyOpts(ApplyOpt(opts, Head(list)), Tail(list))

\* The default loader has an HTTP client and no cache.
parseCredentialOpts(list) ==
    LET o == ApplyOpts([fetcher |-> FALSE, disabledCustomSchema |-> FALSE,
                        loaderSet |-> FALSE, cacheWired |-> FALSE,
                        mode |-> jsonldValidation,
                        allowedCustomContexts |-> {}, allowedCustomTypes |-> {}],
                       list)
    IN  IF o.loaderSet THEN o ELSE [o EXCEPT !.loaderSet = TRUE, !.cacheWired = FALSE]

(***************************************************************************)
(* decodeRaw (lines 738-762).  The input bytes are a JWS, an unsecured JWT *)
(* or anything else; "ok" says whether the JWS verifies / the JWT decodes, *)
(* and body is the credential document carried.                            *)
(***************************************************************************)
isJWS(bytes) == bytes.shape = "JWS"
isJWTUnsecured(bytes) == bytes.shape = "JWT"

JSONBytes(body) == [shape |-> "JSON", ok |-> TRUE, wellFormed |-> TRUE, body |-> body]

\* decodeCredJWS / decodeCredJWTUnsecured: the vc claim's JSON, or an error.
decodeCredJWS(bytes) ==
    IF bytes.ok THEN [data |-> JSONBytes(bytes.body), err |-> NoErr]
    ELSE [data |-> bytes, err |-> Err("JWS decoding")]
decodeCredJWTUnsecured(bytes) ==
    IF bytes.ok THEN [data |-> JSONBytes(bytes.body), err |-> NoErr]
    ELSE [data |-> bytes, err |-> Err("unsecured JWT decoding")]

\* decodeRaw without the check that a key fetcher was supplied.
decodeRawNoFetcherCheck(vcData, fetcher) ==
    IF isJWS(vcData)
    THEN [data |-> decodeCredJWS(vcData).data, err |-> decodeCredJWS(vcData).err,
          verified |-> TRUE]
    ELSE IF isJWTUnsecured(vcData)
    THEN [data |-> decodeCredJWTUnsecured(vcData).data,
          err |-> decodeCredJWTUnsecured(vcData).err, verified |-> FALSE]
    ELSE [data |-> vcData, err |-> NoErr, verified |-> FALSE]

\* verified: whether the JWS decoder (signature check, claim extraction) ran.
decodeRaw(vcData, fetcher) ==
    IF isJWS(vcData)
    THEN IF ~fetcher
         THEN [data |-> vcData, err |-> Err("public key fetcher is not defined"),
               verified |-> FALSE]
         ELSE [data |-> decodeCredJWS(vcData).data, err |-> decodeCredJWS(vcData).err,
               verified |-> TRUE]
    ELSE IF isJWTUnsecured(vcData)
    THEN [data |-> decodeCredJWTUnsecured(vcData).data,
          err |-> decodeCredJWTUnsecured(vcData).err, verified |-> FALSE]
    ELSE [data |-> vcData, err |-> NoErr, verified |-> FALSE]

(***************************************************************************)
(* The schema loader run by one caller: ExpirableSchemaCache.Get as a      *)
(* whole, getJSONSchema (854-876) and getSchemaLoader (827-848).  Each     *)
(* returns its result with the cache it leaves and the URLs it looked up   *)
(* (gets) and fetched (http).                                              *)
(***************************************************************************)
Get(c, k, t) ==
    IF ~CacheHas(c, k) THEN [val |-> << >>, ok |-> FALSE, cache |-> c]
    ELSE IF GetExpired(c[k], t)
    THEN [val |-> << >>, ok |-> FALSE, cache |-> CacheDel(c, k)]
    ELSE [val |-> EntryValue(c[k]), ok |-> TRUE, cache |-> c]

getJSONSchema(url, wired, c, t, ttl, resp) ==
    LET got == loadJSONSchema(resp[url])
        g == Get(c, url, t)
    IN  IF ~wired
        THEN [bytes |-> got.bytes, err |-> got.err, cache |-> c,
              http |-> <<url>>, gets |-> << >>, closes |-> got.closes]
        ELSE IF g.ok
        THEN [bytes |-> g.val, err |-> NoErr, cache |-> g.cache,
              http |-> << >>, gets |-> <<url>>, closes |-> 0]
        ELSE IF got.err # NoErr
        THEN [bytes |-> << >>, err |-> got.err, cache |-> g.cache,
              http |-> <<url>>, gets |-> <<url>>, closes |-> got.closes]
        ELSE [bytes |-> got.bytes, err |-> NoErr,
              cache |-> CacheSet(g.cache, url, PutEntry(got.bytes, t, ttl)),
              http |-> <<url>>, gets |-> <<url>>, closes |-> got.closes]

DefaultLoader == [kind |-> "default", bytes |-> << >>, url |-> ""]
NoLoader == [kind |-> "none", bytes |-> << >>, url |-> ""]

\* The loop of getSchemaLoader from schema i on.
RECURSIVE schemaLoop(_, _, _, _, _, _, _)
schemaLoop(schemas, i, wired, c, t, ttl, resp) ==
    IF i > Len(schemas)
    THEN [loader |-> DefaultLoader, err |-> NoErr, cache |-> c,
          http |-> << >>, gets |-> << >>, closes |-> 0]
    ELSE IF schemas[i].type = jsonSchema2018Type
    THEN LET r == getJSONSchema(schemas[i].id, wired, c, t, ttl, resp)
         IN  IF r.err # NoErr
             THEN [loader |-> NoLoader, err |-> r.err, cache |-> r.cache,
                   http |-> r.http, gets |-> r.gets, closes |-> r.closes]
             ELSE [loader |-> [kind |-> "custom", bytes |-> r.bytes,
                               url |-> schemas[i].id],
                   err |-> NoErr, cache |-> r.cache,
                   http |-> r.http, gets |-> r.gets, closes |-> r.closes]
    ELSE schemaLoop(schemas, i + 1, wired, c, t, ttl, resp)

\* getSchemaLoader without the disabledCustomSchema short cut.
getSchemaLoaderAlwaysCustom(schemas, opts, c, t, ttl, resp) ==
    schemaLoop(schemas, 1, opts.cacheWired, c, t, ttl, resp)

getSchemaLoader(schemas, opts, c, t, ttl, resp) ==
    IF opts.disabledCustomSchema
    THEN [loader |-> DefaultLoader, err |-> NoErr, cache |-> c,
          http |-> << >>, gets |-> << >>, closes |-> 0]
    ELSE schemaLoop(schemas, 1, opts.cacheWired, c, t, ttl, resp)

\* gojsonschema.Validate of document d against the loader chosen.
LoaderValid(loader, d) ==
    IF loader.kind = "default" THEN DefaultSchemaValid(d)
    ELSE loader.bytes = PermissiveSchema

\* validate (lines 804-825).
validate(d, schemas, opts, c, t, ttl, resp) ==
    LET l == getSchemaLoader(schemas, opts, c, t, ttl, resp)
    IN  IF l.err # NoErr THEN l
        ELSE IF ~LoaderValid(l.loader, d)
        THEN [l EXCEPT !.err = Err("verifiable credential is not valid")]
        ELSE l

(***************************************************************************)
(* newCredential (703-736) and the Phase 2 checks (620-664).               *)
(***************************************************************************)
NoVC == [context |-> << >>, customContext |-> << >>, types |-> << >>,
         issuer |-> NoIssuer, subject |-> "absent", issued |-> "absent",
         schemas |-> << >>]

\* newCredential building the credential whatever decodeType and
\* decodeContext report.
newCredentialUnchecked(d, schemas) ==
    LET iss == decodeIssuer(d.issuer)
    IN  IF iss.err # NoErr
        THEN [vc |-> NoVC, err |-> Err("fill credential issuer from raw")]
        ELSE [vc |-> [context |-> decodeContext(d.ctx).context,
                      customContext |-> decodeContext(d.ctx).custom,
                      types |-> decodeType(d.typ).types, issuer |-> iss.issuer,
                      subject |-> d.subject, issued |-> d.issued,
                      schemas |-> schemas],
              err |-> NoErr]

newCredential(d, schemas) ==
    LET ty == decodeType(d.typ)
        iss == decodeIssuer(d.issuer)
        cx == decodeContext(d.ctx)
    IN  IF ty.err # NoErr
        THEN [vc |-> NoVC, err |-> Err("fill credential types from raw")]
        ELSE IF iss.err # NoErr
        THEN [vc |-> NoVC, err |-> Err("fill credential issuer from raw")]
        ELSE IF cx.err # NoErr
        THEN [vc |-> NoVC, err |-> Err("fill credential context from raw")]
        ELSE [vc |-> [context |-> cx.context, customContext |-> cx.custom,
                      types |-> ty.types, issuer |-> iss.issuer,
                      subject |-> d.subject, issued |-> d.issued,
                      schemas |-> schemas],
              err |-> NoErr]

Panic == [label |-> "", msg |-> "panic: index out of range", code |-> 0]

validateBaseOnlyContextType(vc) ==
    IF Len(vc.types) = 0 THEN Panic
    ELSE IF Len(vc.types) > 1 \/ vc.types[1] # vcType
    THEN Err("violated type constraint: not base only type defined")
    ELSE IF Len(vc.context) = 0 THEN Panic
    ELSE IF Len(vc.context) > 1 \/ vc.context[1] # baseContext
    THEN Err("violated @context constraint: not base only @context defined")
    ELSE NoErr

validateCustomContextType(vc, opts) ==
    IF \E i \in 1..Len(vc.context) : vc.context[i] \notin opts.allowedCustomContexts
    THEN Err("not allowed @context")
    ELSE IF \E i \in 1..Len(vc.types) : vc.types[i] \notin opts.allowedCustomTypes
    THEN Err("not allowed type")
    ELSE NoErr

\* postValidateCredential without an error for the modes it does not know.
postValidateCredentialLenient(vc, opts) ==
    CASE opts.mode = baseContextValidation -> validateBaseOnlyContextType(vc)
      [] opts.mode = baseContextExtendedValidation -> validateCustomContextType(vc, opts)
      [] OTHER -> NoErr

postValidateCredential(vc, opts) ==
    CASE opts.mode = jsonldValidation -> NoErr
      [] opts.mode = baseContextValidation -> validateBaseOnlyContextType(vc)
      [] opts.mode = baseContextExtendedValidation -> validateCustomContextType(vc, opts)
      [] OTHER -> Err("unsupported vcModelValidationMode")

(***************************************************************************)
(* One NewCredential run (lines 571-618), stage by stage, followed by      *)
(* MarshalJSON of the result and NewCredential of the emitted document.    *)
(***************************************************************************)
\* What CreateCustomCredential returns: nothing yet, the base credential,
\* the credential of producer "by", or an error under a label.
NoResult == [kind |-> "none", by |-> 0, label |-> ""]

\* source and first are the document and the credential of the run whose
\* output is being decoded again (round 2); ran is the log of stages run;
\* producers, idx, applying, calls and result belong to
\* CreateCustomCredential.

StartCred(bytes, optlist, resp, round, source, first) ==
    [stage |-> "start", round |-> round, bytes |-> bytes, optlist |-> optlist,
     resp |-> resp, opts |-> parseCredentialOpts(<< >>), data |-> bytes,
     schemas |-> << >>, loader |-> NoLoader, vc |-> NoVC, err |-> NoErr,
     ran |-> << >>, verified |-> FALSE, http |-> << >>, gets |-> << >>,
     closes |-> 0, source |-> source, first |-> first,
     producers |-> << >>, idx |-> 1, applying |-> FALSE, calls |-> << >>,
     result |-> NoResult]

\* A stage fails and its error is returned as it is.
FailUnlabelled(c, stage, label, e) ==
    [c EXCEPT !.stage = "failed", !.err = e, !.ran = Append(c.ran, stage)]

\* A stage fails: NewCredential returns (nil, nil, err).
Fail(c, stage, label, e) ==
    [c EXCEPT !.stage = "failed", !.err = Wrap(label, e),
              !.ran = Append(c.ran, stage)]

\* The credential NewCredential returns.
Returned(c) == IF c.stage = "done" THEN c.vc ELSE NoVC

CredIdle == UNCHANGED <<now, expiration, proc, stamp, keyio>>

\* Lines 573-579: apply the options, decode the envelope.
CredDecode ==
    /\ cred.stage = "start"
    /\ LET opts == parseCredentialOpts(cred.optlist)
           r == decodeRaw(cred.bytes, opts.fetcher)
           c == [cred EXCEPT !.opts = opts, !.verified = r.verified]
       IN  cred' = IF r.err # NoErr
                   THEN Fail(c, "decode", "decode new credential", r.err)
                   ELSE [c EXCEPT !.stage = "decoded", !.data = r.data,
                                  !.ran = Append(c.ran, "decode")]
    /\ UNCHANGED cache /\ CredIdle

\* Lines 581-587: json.Unmarshal into rawCredential.
CredUnmarshal ==
    /\ cred.stage = "decoded"
    /\ cred' = IF ~cred.data.wellFormed
               THEN Fail(cred, "unmarshal", "unmarshal new credential",
                         Err("invalid JSON"))
               ELSE [cred EXCEPT !.stage = "unmarshalled",
                                 !.ran = Append(cred.ran, "unmarshal")]
    /\ UNCHANGED cache /\ CredIdle

\* Lines 589-598: the declared schemas, when credentialSchema is present.
CredLoadSchemas ==
    /\ cred.stage = "unmarshalled"
    /\ LET sc == cred.data.body.schema
           r == decodeCredentialSchema(sc)
       IN  cred' = IF sc.k = "absent"
                   THEN [cred EXCEPT !.stage = "loaded", !.schemas = << >>,
                                     !.ran = Append(cred.ran, "load")]
                   ELSE IF r.err # NoErr
                   THEN Fail(cred, "load", "load schemas of new credential", r.err)
                   ELSE [cred EXCEPT !.stage = "loaded", !.schemas = r.schemas,
                                     !.ran = Append(cred.ran, "load")]
    /\ UNCHANGED cache /\ CredIdle

\* Lines 600-604: Phase 1, against the schema the loader resolves.
CredValidate ==
    /\ cred.stage = "loaded"
    /\ LET r == validate(cred.data.body, cred.schemas, cred.opts,
                         cache, now, expiration, cred.resp)
           c == [cred EXCEPT !.loader = r.loader, !.http = r.http,
                             !.gets = r.gets, !.closes = r.closes]
       IN  /\ cache' = r.cache
           /\ cred' = IF r.err # NoErr
                      THEN Fail(c, "validate", "validate new credential", r.err)
                      ELSE [c EXCEPT !.stage = "validated",
                                     !.ran = Append(c.ran, "validate")]
    /\ CredIdle

\* Lines 606-610: build the Credential from the raw document.
CredBuild ==
    /\ cred.stage = "validated"
    /\ LET r == newCredential(cred.data.body, cred.schemas)
       IN  cred' = IF r.err # NoErr
                   THEN Fail(cred, "build", "build new credential", r.err)
                   ELSE [cred EXCEPT !.stage = "built", !.vc = r.vc,
                                     !.ran = Append(cred.ran, "build")]
    /\ UNCHANGED cache /\ CredIdle

\* Lines 612-617: Phase 2; its error is returned without a label.
CredPostValidate ==
    /\ cred.stage = "built"
    /\ LET e == postValidateCredential(cred.vc, cred.opts)
       IN  cred' = IF e = Panic
                   THEN [cred EXCEPT !.stage = "panicked", !.err = e,
                                     !.ran = Append(cred.ran, "postvalidate")]
                   ELSE IF e # NoErr
                   THEN Fail(cred, "postvalidate", "", e)
                   ELSE [cred EXCEPT !.stage = "done",
                                     !.ran = Append(cred.ran, "postvalidate")]
    /\ UNCHANGED cache /\ CredIdle

\* MarshalJSON of the credential returned, handed to NewCredential again
\* with the same options.
CredMarshal ==
    /\ cred.stage = "done"
    /\ cred.round = 1
    /\ cred' = StartCred(JSONBytes(MarshalJSON(cred.vc)), cred.optlist, cred.resp,
                         2, cred.data.body, cred.vc)
    /\ UNCHANGED cache /\ CredIdle

(***************************************************************************)
(* The inputs of the NewCredential runs.                                   *)
(***************************************************************************)
CtxX == "https://ctx.example/x"
CtxY == "https://ctx.example/y"
CtxObj == O("ctxobj")
TypeT1 == "UniversityDegreeCredential"
TypeT2 == "OtherCredential"
IssuerDID == "did:example:123"
IssuerNoScheme == "issuer-1"

Doc(ctx, typ, issuer, subject, issued, schema) ==
    [ctx |-> ctx, typ |-> typ, issuer |-> issuer, subject |-> subject,
     issued |-> issued, schema |-> schema]

CtxVals ==
    {JAbsent, JOther, JStr(baseContext), JStr(CtxX), JArr(<< >>),
     JArr(<<S(baseContext)>>),
     JArr(<<S(baseContext), S(CtxX)>>),
     JArr(<<S(baseContext), S(CtxY)>>),
     JArr(<<S(baseContext), CtxObj>>),
     JArr(<<S(baseContext), S(CtxX), CtxObj>>),
     JArr(<<S(baseContext), CtxObj, S(CtxX)>>),
     JArr(<<S(CtxX)>>),
     JArr(<<S(baseContext), S(baseContext)>>)}

TypVals ==
    {JAbsent, JStr(vcType), JStr(TypeT1), JArr(<< >>),
     JArr(<<S(vcType)>>),
     JArr(<<S(vcType), S(TypeT1)>>),
     JArr(<<S(vcType), S(TypeT2)>>),
     JArr(<<S(TypeT1), S(vcType)>>),
     JArr(<<S(vcType), N("0")>>)}

IssVals ==
    {IssAbsent, IssOther, IssStr(IssuerDID), IssStr(IssuerNoScheme),
     IssObj(MStr(IssuerDID), MAbsent),
     IssObj(MStr(IssuerDID), MStr("Acme")),
     IssObj(MStr(IssuerDID), MStr("")),
     IssObj(MStr(IssuerNoScheme), MAbsent),
     IssObj(MStr(""), MAbsent),
     IssObj(MAbsent, MStr("Acme")),
     IssObj(MOther, MAbsent),
     IssObj(MStr(IssuerDID), MOther)}

ModeOptLists ==
    {<< >>, <<WithJSONLDValidation>>, <<WithBaseContextValidation>>,
     <<WithBaseContextValidation, WithJSONLDValidation>>}
    \cup {<<WithBaseContextExtendedValidation(C, T)>> :
            C \in SUBSET {CtxX}, T \in SUBSET {TypeT1}}
    \cup {<<WithBaseContextExtendedValidation({CtxX}, {TypeT1}),
            WithBaseContextValidation>>}

NoResp == [k \in Keys |-> [transport |-> TRUE, status |-> 0, body |-> << >>,
                           readErr |-> FALSE]]
EmptyCache == [k \in Keys |-> NoEntry]

Input(bytes, optlist, resp, cache0) ==
    [bytes |-> bytes, optlist |-> optlist, resp |-> resp, cache0 |-> cache0]

\* Plain JSON documents over every form of @context, type and issuer, under
\* every model validation mode.
FieldInputs ==
    {Input(JSONBytes(Doc(c, t, i, "obj", "ok", JAbsent)), ol, NoResp, EmptyCache) :
        c \in CtxVals, t \in TypVals, i \in IssVals, ol \in ModeOptLists}

ValidDoc(schema) ==
    Doc(JArr(<<S(baseContext)>>), JStr(vcType), IssStr(IssuerDID), "obj", "ok", schema)
ArrayTypeDoc(schema) ==
    Doc(JArr(<<S(baseContext)>>), JArr(<<S(vcType)>>), IssStr(IssuerDID), "obj", "ok",
        schema)
NoTypesDoc(schema) ==
    Doc(JArr(<<S(baseContext)>>), JArr(<< >>), IssStr(IssuerDID), "obj", "ok", schema)
NoContextDoc(schema) ==
    Doc(JArr(<< >>), JStr(vcType), IssStr(IssuerDID), "obj", "ok", schema)
SchemaDocs(schema) ==
    {ValidDoc(schema), ArrayTypeDoc(schema), NoTypesDoc(schema), NoContextDoc(schema)}

OtherSchemaType == "OtherSchemaValidator"

SchemaVals ==
    {JOther, JArr(<< >>),
     [k |-> "obj", a |-> <<TypedID(U1, jsonSchema2018Type)>>],
     [k |-> "obj", a |-> <<TypedID(U1, OtherSchemaType)>>],
     JArr(<<TypedID(U1, jsonSchema2018Type)>>),
     JArr(<<TypedID(U1, OtherSchemaType), TypedID(U2, jsonSchema2018Type)>>),
     JArr(<<TypedID(U1, jsonSchema2018Type), TypedID(U2, jsonSchema2018Type)>>),
     JArr(<<TypedID(U1, OtherSchemaType), TypedID(U2, OtherSchemaType)>>)}

RespChoices ==
    {[transport |-> FALSE, status |-> StatusOK, body |-> PermissiveSchema,
      readErr |-> FALSE],
     [transport |-> FALSE, status |-> StatusOK, body |-> StrictSchema,
      readErr |-> FALSE],
     [transport |-> FALSE, status |-> 404, body |-> PermissiveSchema,
      readErr |-> FALSE],
     [transport |-> TRUE, status |-> 0, body |-> << >>, readErr |-> FALSE],
     [transport |-> FALSE, status |-> StatusOK, body |-> << >>, readErr |-> TRUE]}

\* The clock reading of the NewCredential runs, their TTL, and the caches
\* they may start from: an entry stamped at this reading is fresh, one
\* stamped at reading 0 with no TTL is stale.
CredNow == 2 * TicksPerSec
CredTTL == TicksPerSec
WiredCaches ==
    {EmptyCache}
    \cup {[EmptyCache EXCEPT ![U1] = PutEntry(v, CredNow, CredTTL)] :
            v \in {PermissiveSchema, StrictSchema}}
    \cup {[EmptyCache EXCEPT ![U1] = PutEntry(StrictSchema, 0, 0)]}

LoaderOptLists(wired) ==
    IF wired
    THEN {<<WithCredentialSchemaLoader(TRUE)>>,
          <<WithCredentialSchemaLoader(TRUE), WithNoCustomSchemaCheck>>,
          <<WithCredentialSchemaLoader(TRUE), WithBaseContextValidation>>}
    ELSE {<< >>, <<WithNoCustomSchemaCheck>>, <<WithCredentialSchemaLoader(FALSE)>>}

\* Documents declaring schemas, with every answer of the HTTP client, with
\* and without a cache wired into the loader.
SchemaInputs ==
    {Input(JSONBytes(d), ol, r, c0) :
        d \in UNION {SchemaDocs(sv) : sv \in SchemaVals},
        ol \in LoaderOptLists(TRUE), r \in [Keys -> RespChoices], c0 \in WiredCaches}
    \cup
    {Input(JSONBytes(d), ol, r, EmptyCache) :
        d \in UNION {SchemaDocs(sv) : sv \in SchemaVals},
        ol \in LoaderOptLists(FALSE), r \in [Keys -> RespChoices]}

\* Envelopes (JWS, unsecured JWT), malformed JSON, and documents without
\* the other required members.
EnvelopeInputs ==
    {Input([shape |-> sh, ok |-> ok, wellFormed |-> TRUE, body |-> d], ol, NoResp,
           EmptyCache) :
        sh \in {"JWS", "JWT"}, ok \in BOOLEAN,
        d \in {ValidDoc(JAbsent), ArrayTypeDoc(JAbsent)},
        ol \in {<< >>, <<WithPublicKeyFetcher>>}}
    \cup
    {Input([shape |-> "JSON", ok |-> TRUE, wellFormed |-> FALSE,
            body |-> ValidDoc(JAbsent)], ol, NoResp, EmptyCache) :
        ol \in {<< >>, <<WithPublicKeyFetcher>>}}
    \cup
    {Input(JSONBytes(Doc(JArr(<<S(baseContext)>>), JStr(vcType), IssStr(IssuerDID),
                         su, is, JAbsent)), << >>, NoResp, EmptyCache) :
        su \in {"absent", "obj", "arr", "str"}, is \in {"absent", "ok"}}

Inputs == FieldInputs \cup SchemaInputs \cup EnvelopeInputs

InitCred ==
    \E inp \in Inputs :
        /\ cred = StartCred(inp.bytes, inp.optlist, inp.resp, 1, inp.bytes.body, NoVC)
        /\ cache = inp.cache0
    /\ now = CredNow
    /\ expiration = CredTTL
    /\ proc = [p \in Procs |-> IdleProc(NoLast)]
    /\ stamp = [k \in Keys |-> NoStamp]
    /\ keyio = NoKeyCall

NextCred ==
    \/ CredDecode
    \/ CredUnmarshal
    \/ CredLoadSchemas
    \/ CredValidate
    \/ CredBuild
    \/ CredPostValidate
    \/ CredMarshal

SpecCred == InitCred /\ [][NextCred]_vars

(***************************************************************************)
(* Phase 2 on its own: parseCredentialOpts (lines 773-794) over a list of  *)
(* options, and postValidateCredential (lines 620-636) over the            *)
(* credentials newCredential builds and every value of the mode field,     *)
(* those no option sets included.                                          *)
(***************************************************************************)
MaxMode == 3

BuiltCredentials ==
    {[context |-> c, customContext |-> cc, types |-> t,
      issuer |-> [id |-> IssuerDID, name |-> ""], subject |-> "obj",
      issued |-> "ok", schemas |-> << >>] :
        c \in {<<baseContext>>, <<baseContext, CtxX>>, <<baseContext, CtxY>>},
        cc \in {<< >>, <<CtxObj>>},
        t \in {<<vcType>>, <<vcType, TypeT1>>, <<vcType, TypeT2>>}}

Phase2OptLists ==
    ModeOptLists
    \cup {<<WithBaseContextValidation, WithNoCustomSchemaCheck>>,
          <<WithPublicKeyFetcher>>,
          <<WithJSONLDValidation, WithBaseContextExtendedValidation({CtxX}, {})>>}

\* credentialOpts values with the mode field set directly.
ModeOpts ==
    {[parseCredentialOpts(<< >>) EXCEPT !.mode = m,
                                       !.allowedCustomContexts = AllowedContexts(C),
                                       !.allowedCustomTypes = AllowedTypes(T)] :
        m \in 0..MaxMode, C \in SUBSET {CtxX}, T \in SUBSET {TypeT1}}

\* Lines 571-573: the options applied in the order given.
CredParseOpts ==
    /\ cred.stage = "options"
    /\ cred' = [cred EXCEPT !.stage = "built",
                            !.opts = parseCredentialOpts(cred.optlist),
                            !.ran = Append(cred.ran, "options")]
    /\ UNCHANGED cache /\ CredIdle

InitPhase2 ==
    /\ \E vc \in BuiltCredentials :
          \/ \E ol \in Phase2OptLists :
                cred = [StartCred(JSONBytes(ValidDoc(JAbsent)), ol, NoResp,
                                  1, ValidDoc(JAbsent), NoVC)
                          EXCEPT !.stage = "options", !.vc = vc]
          \/ \E o \in ModeOpts :
                cred = [StartCred(JSONBytes(ValidDoc(JAbsent)), << >>, NoResp,
                                  1, ValidDoc(JAbsent), NoVC)
                          EXCEPT !.stage = "built", !.vc = vc, !.opts = o]
    /\ cache = EmptyCache
    /\ now = CredNow
    /\ expiration = CredTTL
    /\ proc = [p \in Procs |-> IdleProc(NoLast)]
    /\ stamp = [k \in Keys |-> NoStamp]
    /\ keyio = NoKeyCall

NextPhase2 ==
    \/ CredParseOpts
    \/ CredPostValidate

SpecPhase2 == InitPhase2 /\ [][NextPhase2]_vars

(***************************************************************************)
(* CreateCustomCredential (lines 679-701): NewCredential, then the         *)
(* producers in list order.  A producer is given by what its Accept        *)
(* answers on the base credential and by whether its Apply succeeds; calls *)
(* is the log of the producer methods invoked.                             *)
(***************************************************************************)
Producer(accept, applyOK) == [accept |-> accept, applyOK |-> applyOK]

\* CustomCredentialProducer.Accept of producer p on the base credential.
Accepts(p, vc) ==
    CASE p.accept = "every" -> TRUE
      [] p.accept = "degree" -> \E i \in 1..Len(vc.types) : vc.types[i] = TypeT1
      [] OTHER -> FALSE

\* Lines 683-686: NewCredential failed.
CccBaseError ==
    /\ cred.stage = "failed"
    /\ cred.result = NoResult
    /\ cred' = [cred EXCEPT !.result = [kind |-> "error", by |-> 0,
                                        label |-> "build base verifiable credential"]]
    /\ UNCHANGED cache /\ CredIdle

\* Line 689: Accept of the next producer.
CccAccept ==
    /\ cred.stage = "done"
    /\ cred.result = NoResult
    /\ ~cred.applying
    /\ cred.idx <= Len(cred.producers)
    /\ LET c == [cred EXCEPT !.calls = Append(cred.calls, [op |-> "Accept", p |-> cred.idx])]
       IN  cred' = IF Accepts(cred.producers[cred.idx], cred.vc)
                   THEN [c EXCEPT !.applying = TRUE]
                   ELSE [c EXCEPT !.idx = cred.idx + 1]
    /\ UNCHANGED cache /\ CredIdle

\* Apply falling back to the next producer when it fails.
CccApplyFallBack ==
    /\ cred.applying
    /\ LET c == [cred EXCEPT !.calls = Append(cred.calls, [op |-> "Apply", p |-> cred.idx]),
                             !.applying = FALSE]
       IN  cred' = IF cred.producers[cred.idx].applyOK
                   THEN [c EXCEPT !.result = [kind |-> "custom", by |-> cred.idx,
                                              label |-> ""]]
                   ELSE [c EXCEPT !.idx = cred.idx + 1]
    /\ UNCHANGED cache /\ CredIdle

\* Lines 690-695: Apply of the producer that accepted.
CccApply ==
    /\ cred.applying
    /\ LET c == [cred EXCEPT !.calls = Append(cred.calls, [op |-> "Apply", p |-> cred.idx]),
                             !.applying = FALSE]
       IN  cred' = IF cred.producers[cred.idx].applyOK
                   THEN [c EXCEPT !.result = [kind |-> "custom", by |-> cred.idx,
                                              label |-> ""]]
                   ELSE [c EXCEPT !.result =
                            [kind |-> "error", by |-> cred.idx,
                             label |-> "build extended verifiable credential"]]
    /\ UNCHANGED cache /\ CredIdle

\* Line 700: no producer accepted.
CccReturnBase ==
    /\ cred.stage = "done"
    /\ cred.result = NoResult
    /\ ~cred.applying
    /\ cred.idx > Len(cred.producers)
    /\ cred' = [cred EXCEPT !.result = [kind |-> "base", by |-> 0, label |-> ""]]
    /\ UNCHANGED cache /\ CredIdle

(***************************************************************************)
(* The CreateCustomCredential calls: a few documents under the default     *)
(* options (and a JWS without a key fetcher), with every list of at most   *)
(* MaxProducers producers.                                                 *)
(***************************************************************************)
MaxProducers == 3
Producers == {Producer(a, ok) : a \in {"every", "degree", "none"}, ok \in BOOLEAN}
DegreeDoc ==
    Doc(JArr(<<S(baseContext)>>), JArr(<<S(vcType), S(TypeT1)>>), IssStr(IssuerDID),
        "obj", "ok", JAbsent)
CustomInputs ==
    {JSONBytes(ValidDoc(JAbsent)), JSONBytes(DegreeDoc), JSONBytes(ArrayTypeDoc(JAbsent)),
     [shape |-> "JWS", ok |-> TRUE, wellFormed |-> TRUE, body |-> DegreeDoc]}

InitCustom ==
    /\ \E bytes \in CustomInputs, ps \in SeqsUpTo(Producers, MaxProducers) :
          cred = [StartCred(bytes, << >>, NoResp, 1, bytes.body, NoVC)
                    EXCEPT !.producers = ps]
    /\ cache = EmptyCache
    /\ now = CredNow
    /\ expiration = CredTTL
    /\ proc = [p \in Procs |-> IdleProc(NoLast)]
    /\ stamp = [k \in Keys |-> NoStamp]
    /\ keyio = NoKeyCall

NextCustom ==
    \/ CredDecode
    \/ CredUnmarshal
    \/ CredLoadSchemas
    \/ CredValidate
    \/ CredBuild
    \/ CredPostValidate
    \/ CccBaseError
    \/ CccAccept
    \/ CccApply
    \/ CccReturnBase

SpecCustom == InitCustom /\ [][NextCustom]_vars

(***************************************************************************)
(* keyio/composite_key_export.go.  A PublicKey record has kid, type,       *)
(* curve, x and y.  Protobuf enum values are written by their Go names and *)
(* rendered by String() as their symbolic names; marshalled messages are   *)
(* tagged with the message they encode.                                    *)
(***************************************************************************)
ecdhAESPublicKeyTypeURL ==
    "type.hyperledger.org/hyperledger.aries.crypto.tink.EcdhAesAeadPublicKey"
OtherTypeURL == "type.googleapis.com/google.crypto.tink.AesGcmKey"

PublicKey(kid, type, curve, x, y) ==
    [kid |-> kid, type |-> type, curve |-> curve, x |-> x, y |-> y]
NoPublicKey == PublicKey("", "", "", << >>, << >>)

\* getCurveProto with the P-384 names resolved to the P-521 curve.
getCurveProtoMixedUp(c) ==
    CASE c \in {"secp256r1", "NIST_P256", "P-256", "EllipticCurveType_NIST_P256"} ->
            [cp |-> "EllipticCurveType_NIST_P256", err |-> NoErr]
      [] c \in {"secp384r1", "NIST_P384", "P-384", "EllipticCurveType_NIST_P384",
                "secp521r1", "NIST_P521", "P-521", "EllipticCurveType_NIST_P521"} ->
            [cp |-> "EllipticCurveType_NIST_P521", err |-> NoErr]
      [] OTHER -> [cp |-> "EllipticCurveType_UNKNOWN_CURVE", err |-> Err("unsupported curve")]

\* getCurveProto (lines 278-289); the zero value of the enum on an error.
getCurveProto(c) ==
    CASE c \in {"secp256r1", "NIST_P256", "P-256", "EllipticCurveType_NIST_P256"} ->
            [cp |-> "EllipticCurveType_NIST_P256", err |-> NoErr]
      [] c \in {"secp384r1", "NIST_P384", "P-384", "EllipticCurveType_NIST_P384"} ->
            [cp |-> "EllipticCurveType_NIST_P384", err |-> NoErr]
      [] c \in {"secp521r1", "NIST_P521", "P-521", "EllipticCurveType_NIST_P521"} ->
            [cp |-> "EllipticCurveType_NIST_P521", err |-> NoErr]
      [] OTHER -> [cp |-> "EllipticCurveType_UNKNOWN_CURVE", err |-> Err("unsupported curve")]

\* EllipticCurveType.String() and KeyType.String().
CurveTypeString(cp) ==
    CASE cp = "EllipticCurveType_NIST_P256" -> "NIST_P256"
      [] cp = "EllipticCurveType_NIST_P384" -> "NIST_P384"
      [] cp = "EllipticCurveType_NIST_P521" -> "NIST_P521"
      [] OTHER -> "UNKNOWN_CURVE"
KeyTypeString(kt) == IF kt = "KeyType_EC" THEN "EC" ELSE "UNKNOWN_KEY_TYPE"

\* hybrid.GetCurve: the names it resolves to a curve.
GetCurveOK(name) ==
    name \in {"secp256r1", "NIST_P256", "P-256", "EllipticCurveType_NIST_P256",
              "secp384r1", "NIST_P384", "P-384", "EllipticCurveType_NIST_P384",
              "secp521r1", "NIST_P521", "P-521", "EllipticCurveType_NIST_P521"}

\* proto.Marshal / proto.Unmarshal of an EcdhAeadPublicKey message.
ProtoMarshal(msg) == [wire |-> "EcdhAeadPublicKey", msg |-> msg]
EcdhAeadPublicKey(kid, cp, kt, x, y) ==
    [KID |-> kid, CurveType |-> cp, KeyType |-> kt, X |-> x, Y |-> y]
NoProtoKey == EcdhAeadPublicKey("", "EllipticCurveType_UNKNOWN_CURVE",
                                "KeyType_UNKNOWN_KEY_TYPE", << >>, << >>)
Garbage == [wire |-> "garbage", msg |-> NoProtoKey]
ProtoUnmarshal(bytes) ==
    IF bytes.wire = "EcdhAeadPublicKey" THEN [msg |-> bytes.msg, err |-> NoErr]
    ELSE [msg |-> NoProtoKey, err |-> Err("proto: cannot parse")]

\* json.Marshal / json.Unmarshal of a PublicKey record.
PublicKeyJSON(pk) == [json |-> "PublicKey", pk |-> pk]
PublicKeyFromJSON(bytes) ==
    IF bytes.json = "PublicKey" THEN [pk |-> bytes.pk, err |-> NoErr]
    ELSE [pk |-> NoPublicKey, err |-> Err("json: cannot unmarshal")]

\* tinkpb.Keyset_Key and tinkpb.Keyset.
KeysetKey(id, status, typeUrl, value, material) ==
    [KeyId |-> id, Status |-> status, TypeUrl |-> typeUrl, Value |-> value,
     KeyMaterialType |-> material]
Keyset(keys, primary) == [Key |-> keys, PrimaryKeyId |-> primary]

\* newKeySet (lines 291-310).
newKeySet(tURL, marshalledKey, keyMaterialType) ==
    Keyset(<<KeysetKey(1, "ENABLED", tURL, marshalledKey, keyMaterialType)>>, 1)

\* newECDHKey (lines 160-174).
newECDHKey(mKey) ==
    LET u == ProtoUnmarshal(mKey)
    IN  IF u.err # NoErr THEN [key |-> NoProtoKey, err |-> u.err]
        ELSE IF u.msg.KeyType # "KeyType_EC"
        THEN [key |-> NoProtoKey, err |-> Err("undefined key type")]
        ELSE [key |-> u.msg, err |-> NoErr]

\* buildCompositeKey (lines 132-146).
buildCompositeKey(kid, keyType, curve, x, y) ==
    IF ~GetCurveOK(curve) THEN [pk |-> NoPublicKey, err |-> Err("undefined curve")]
    ELSE [pk |-> PublicKey(kid, keyType, curve, x, y), err |-> NoErr]

\* buildKey (lines 125-130) over the getters of ecdhKey (lines 176-194).
buildKey(c) ==
    buildCompositeKey(c.KID, KeyTypeString(c.KeyType), CurveTypeString(c.CurveType),
                      c.X, c.Y)

\* protoToCompositeKey (lines 106-123).
protoToCompositeKey(key) ==
    IF key.TypeUrl = ecdhAESPublicKeyTypeURL
    THEN LET k == newECDHKey(key.Value)
         IN  IF k.err # NoErr THEN [pk |-> NoPublicKey, err |-> k.err]
             ELSE buildKey(k.key)
    ELSE [pk |-> NoPublicKey, err |-> Err("can't export key with keyURL")]

\* writePubKey (lines 87-104) on a writer that takes every byte: what is
\* written (w), whether bytes were written, and the error.
writePubKey(key) ==
    LET r == protoToCompositeKey(key)
    IN  IF r.err # NoErr THEN [created |-> FALSE, w |-> << >>, err |-> r.err]
        ELSE [created |-> TRUE, w |-> <<PublicKeyJSON(r.pk)>>, err |-> NoErr]


\* The loop of write going on to the next key when a key cannot be written.
RECURSIVE writeLoopFallThrough(_, _, _)
writeLoopFallThrough(ks, primaryKID, i) ==
    IF i > Len(ks) THEN [created |-> FALSE, w |-> << >>, err |-> NoErr]
    ELSE IF /\ ks[i].KeyId = primaryKID /\ ks[i].Status = "ENABLED"
            /\ writePubKey(ks[i]).err = NoErr
    THEN writePubKey(ks[i])
    ELSE writeLoopFallThrough(ks, primaryKID, i + 1)

\* The loop of write (lines 69-78) from key i on.
RECURSIVE writeLoop(_, _, _)
writeLoop(ks, primaryKID, i) ==
    IF i > Len(ks) THEN [created |-> FALSE, w |-> << >>, err |-> NoErr]
    ELSE IF ks[i].KeyId = primaryKID /\ ks[i].Status = "ENABLED"
    THEN writePubKey(ks[i])
    ELSE writeLoop(ks, primaryKID, i + 1)

\* write (lines 62-85): what the writer received, and the error returned.
write(msg) ==
    LET r == writeLoop(msg.Key, msg.PrimaryKeyId, 1)
    IN  IF r.err # NoErr THEN [w |-> r.w, err |-> r.err]
        ELSE IF ~r.created THEN [w |-> r.w, err |-> Err("key not written")]
        ELSE [w |-> r.w, err |-> NoErr]

\* PublicKeyToKeysetHandle (lines 237-276); the handle holds the keyset.
PublicKeyToKeysetHandle(pubKey) ==
    LET c == getCurveProto(pubKey.curve)
        protoKey == EcdhAeadPublicKey(pubKey.kid, c.cp, "KeyType_EC", pubKey.x, pubKey.y)
    IN  IF c.err # NoErr
        THEN [kh |-> Keyset(<< >>, 0),
              err |-> Wrap("publicKeyToKeysetHandle: failed to convert curve string to proto",
                           c.err)]
        ELSE [kh |-> newKeySet(ecdhAESPublicKeyTypeURL, ProtoMarshal(protoKey),
                               "ASYMMETRIC_PUBLIC"),
              err |-> NoErr]

\* keyset.Handle.Public on a handle: it refuses a keyset with a key that is
\* not private; WriteWithNoSecrets refuses a keyset with secret material.
HasNonPrivateKey(kh) ==
    \E i \in 1..Len(kh.Key) : kh.Key[i].KeyMaterialType # "ASYMMETRIC_PRIVATE"
HasSecrets(kh) ==
    \E i \in 1..Len(kh.Key) : kh.Key[i].KeyMaterialType # "ASYMMETRIC_PUBLIC"

\* writePubKeyFromKeyHandle (lines 213-232) on a handle of public material.
writePubKeyFromKeyHandle(handle) ==
    IF ~HasNonPrivateKey(handle)
    THEN [bytes |-> << >>, err |-> Err("keyset.Handle: public key derivation")]
    ELSE IF HasSecrets(handle)
    THEN [bytes |-> << >>, err |-> Err("exporting unencrypted secret key material is forbidden")]
    ELSE LET r == write(handle)
         IN  IF r.err # NoErr THEN [bytes |-> << >>, err |-> r.err]
             ELSE [bytes |-> r.w, err |-> NoErr]

\* ExtractPrimaryPublicKey (lines 197-211).
ExtractPrimaryPublicKey(kh) ==
    LET b == writePubKeyFromKeyHandle(kh)
        u == PublicKeyFromJSON(b.bytes[1])
    IN  IF b.err # NoErr
        THEN [pk |-> NoPublicKey,
              err |-> Wrap("extractPrimaryPublicKey: failed to get public key content", b.err)]
        ELSE IF u.err # NoErr
        THEN [pk |-> NoPublicKey,
              err |-> Wrap("extractPrimaryPublicKey: unmarshal key failed", u.err)]
        ELSE [pk |-> u.pk, err |-> NoErr]

(***************************************************************************)
(* The keyio calls: PubKeyWriter.Write of a keyset, and the import of a    *)
(* PublicKey record followed by the extraction of the primary public key   *)
(* of the handle.                                                          *)
(***************************************************************************)
KeyCall(op, pubKey, ks) ==
    [pc |-> "start", op |-> op, pubKey |-> pubKey, ks |-> ks, w |-> << >>,
     err |-> NoErr, pk |-> NoPublicKey]

KeyIdle == UNCHANGED <<cache, now, expiration, proc, stamp, cred>>

\* PubKeyWriter.Write (lines 53-55).
KeyWrite ==
    /\ keyio.pc = "start" /\ keyio.op = "Write"
    /\ LET r == write(keyio.ks)
       IN  keyio' = [keyio EXCEPT !.pc = IF r.err = NoErr THEN "written" ELSE "failed",
                                  !.w = r.w, !.err = r.err]
    /\ KeyIdle

KeyImport ==
    /\ keyio.pc = "start" /\ keyio.op = "RoundTrip"
    /\ LET r == PublicKeyToKeysetHandle(keyio.pubKey)
       IN  keyio' = [keyio EXCEPT !.pc = IF r.err = NoErr THEN "imported" ELSE "failed",
                                  !.ks = r.kh, !.err = r.err]
    /\ KeyIdle

KeyExtract ==
    /\ keyio.pc = "imported"
    /\ LET r == ExtractPrimaryPublicKey(keyio.ks)
       IN  keyio' = [keyio EXCEPT !.pc = IF r.err = NoErr THEN "extracted" ELSE "failed",
                                  !.pk = r.pk, !.err = r.err]
    /\ KeyIdle

\* The inputs of the keyio calls.
MaxKeys == 2
CurveNames ==
    {"secp256r1", "NIST_P256", "P-256", "EllipticCurveType_NIST_P256",
     "secp384r1", "NIST_P384", "P-384", "EllipticCurveType_NIST_P384",
     "secp521r1", "NIST_P521", "P-521", "EllipticCurveType_NIST_P521",
     "secp256k1", ""}
Coordinates == {<<1>>, <<2, 3>>}
PublicKeys ==
    {PublicKey(kid, type, curve, x, y) :
        kid \in {"", "key-1"}, type \in {"EC", "OKP", ""}, curve \in CurveNames,
        x \in Coordinates, y \in Coordinates}

KeyValues ==
    {ProtoMarshal(EcdhAeadPublicKey("key-1", "EllipticCurveType_NIST_P256", "KeyType_EC",
                                    <<1>>, <<2, 3>>)),
     ProtoMarshal(EcdhAeadPublicKey("key-2", "EllipticCurveType_NIST_P384",
                                    "KeyType_UNKNOWN_KEY_TYPE", <<1>>, <<1>>)),
     ProtoMarshal(EcdhAeadPublicKey("key-3", "EllipticCurveType_UNKNOWN_CURVE",
                                    "KeyType_EC", <<1>>, <<1>>)),
     Garbage}
KeysetKeys ==
    {KeysetKey(id, st, ecdhAESPublicKeyTypeURL, v, "ASYMMETRIC_PUBLIC") :
        id \in 1..2, st \in {"ENABLED", "DISABLED"}, v \in KeyValues}
    \cup {KeysetKey(id, st, OtherTypeURL, Garbage, "ASYMMETRIC_PUBLIC") :
            id \in 1..2, st \in {"ENABLED", "DISABLED"}}
Keysets == {Keyset(ks, p) : ks \in SeqsUpTo(KeysetKeys, MaxKeys), p \in 1..3}

InitKey ==
    /\ keyio \in {KeyCall("Write", NoPublicKey, ks) : ks \in Keysets}
                 \cup {KeyCall("RoundTrip", pk, Keyset(<< >>, 0)) : pk \in PublicKeys}
    /\ cache = [k \in Keys |-> NoEntry]
    /\ now = 0
    /\ expiration = 0
    /\ proc = [p \in Procs |-> IdleProc(NoLast)]
    /\ stamp = [k \in Keys |-> NoStamp]
    /\ cred = NoCred

NextKey ==
    \/ KeyWrite
    \/ KeyImport
    \/ KeyExtract

SpecKey == InitKey /\ [][NextKey]_vars

(***************************************************************************)
(* Claims about the schema cache (specification Spec).                     *)
(***************************************************************************)

\* A direct caller p completes Get's second step in this transition.
GetChecks(p) == proc[p].pc = "get_check" /\ proc'[p].pc = "get_done"

\* C1, as amended.  A Get of k that read the entry stored by Put(k, v) at
\* clock reading g.t returns (v, true) and leaves the cache alone when its
\* own clock reading is at most g.t + TTL; it returns a miss and the key is
\* gone from the cache when its own clock reading is in a later Unix second
\* than g.t + TTL; and a Get that finds no entry misses.
C1_GetAfterPut ==
    [][\A p \in Procs :
         /\ GetChecks(p) =>
              LET g == proc[p].g
                  k == proc[p].k
                  r == proc'[p].res
              IN  /\ now <= g.t + expiration =>
                        r.ok /\ r.val = g.v /\ cache' = cache
                  /\ Unix(now) > Unix(g.t + expiration) =>
                        ~r.ok /\ cache'[k] = NoEntry
         /\ (proc[p].pc = "idle" /\ proc'[p].pc = "get_done") =>
              cache[proc'[p].k] = NoEntry /\ ~proc'[p].res.ok
      ]_vars

\* C1 as stated: the same, with the miss promised as soon as the clock
\* reading is past g.t + TTL.
C1_GetAfterPut_Original ==
    [][\A p \in Procs :
         GetChecks(p) =>
              LET g == proc[p].g
                  k == proc[p].k
                  r == proc'[p].res
              IN  /\ now <= g.t + expiration =>
                        r.ok /\ r.val = g.v /\ cache' = cache
                  /\ now > g.t + expiration =>
                        ~r.ok /\ cache'[k] = NoEntry
      ]_vars

\* C1: one caller holds a hit and another holds a miss by expiry whose key
\* is gone from the cache.
C1_Witness ==
    \E p, q \in Procs :
        /\ proc[p].pc = "get_done" /\ proc[p].res.ok
        /\ proc[q].pc = "get_done" /\ proc[q].res.del
        /\ cache[proc[q].k] = NoEntry

\* C2.  The expiry removal of a Get never deletes a fresh entry: whenever a
\* Get deletes its key, the entry deleted is expired at that clock reading
\* (it is the stale entry, not one a concurrent Put has just written).
C2_FreshEntryNeverDeleted ==
    [][\A p \in Procs :
         (GetChecks(p) /\ cache'[proc[p].k] # cache[proc[p].k]) =>
              EntryExpired(cache[proc[p].k], now)
      ]_vars

(***************************************************************************)
(* Claims about getJSONSchema (specification SpecLoader).                  *)
(***************************************************************************)

\* C3.  A resolution performs one HTTP GET exactly when its cache.Get
\* missed; on a hit it returns the cached bytes; after a miss and a
\* successful fetch the fetched bytes are returned and Put, so the caller's
\* next resolution of the same URL within the TTL hits the cache.
C3_CacheHitFirst ==
    \A p \in Procs :
        /\ proc[p].pc = "gjs_done" =>
              /\ proc[p].calls = (IF proc[p].res.ok THEN 0 ELSE 1)
              /\ proc[p].res.ok => proc[p].out = proc[p].res.val /\ proc[p].err = NoErr
        /\ proc[p].pc = "gjs_put" => proc[p].calls = 1 /\ ~proc[p].res.ok
        /\ (proc[p].pc = "get_done" /\ proc[p].caller = "gjs" /\ proc[p].within) =>
              proc[p].res.ok

(***************************************************************************)
(* Claims about NewCredential and MarshalJSON (specification SpecCred).    *)
(***************************************************************************)
StageRan(name) == \E i \in 1..Len(cred.ran) : cred.ran[i] = name

\* The position of the first declared schema of the supported type; 0 when
\* there is none.
RECURSIVE FirstSupported(_, _)
FirstSupported(schemas, i) ==
    IF i > Len(schemas) THEN 0
    ELSE IF schemas[i].type = jsonSchema2018Type THEN i
    ELSE FirstSupported(schemas, i + 1)

\* C4.  Once validate has run: with custom schema checks disabled, or with
\* no declared schema of type JsonSchemaValidator2018, the default schema is
\* used and nothing is fetched or looked up; otherwise only the first
\* declared schema of that type is looked up or fetched, and the document
\* used is the one resolved for its URL (the fetched body, or with a cache
\* wired the bytes the cache holds for it); a failed resolution fails the
\* validate stage.
C4_SchemaResolutionPolicy ==
    StageRan("validate") =>
        LET i == FirstSupported(cred.schemas, 1)
        IN  IF cred.opts.disabledCustomSchema \/ i = 0
            THEN /\ cred.loader = DefaultLoader
                 /\ cred.http = << >>
                 /\ cred.gets = << >>
            ELSE LET u == cred.schemas[i].id
                 IN  /\ cred.http \in {<< >>, <<u>>}
                     /\ cred.gets \in {<< >>, <<u>>}
                     /\ cred.loader.kind \in {"custom", "none"}
                     /\ cred.loader.kind = "custom" =>
                          /\ cred.loader.url = u
                          /\ IF cred.opts.cacheWired
                             THEN /\ CacheHas(cache, u)
                                  /\ EntryValue(cache[u]) = cred.loader.bytes
                             ELSE /\ cred.http = <<u>>
                                  /\ cred.loader.bytes = cred.resp[u].body
                     /\ cred.loader.kind = "none" =>
                          /\ cred.stage = "failed"
                          /\ cred.err.label = "validate new credential"

\* C4: the first declared schema is of another type, the second is of the
\* supported type and is the one fetched and used.
C4_Witness ==
    /\ StageRan("validate")
    /\ ~cred.opts.disabledCustomSchema
    /\ Len(cred.schemas) = 2
    /\ cred.schemas[1].type = OtherSchemaType
    /\ cred.loader.kind = "custom"
    /\ cred.loader.url = U2
    /\ cred.http = <<U2>>

\* C5.  A JWS without a key fetcher fails under the label "decode new
\* credential": the JWS decoder is never run and no later stage runs.  Bytes
\* that are neither a JWS nor an unsecured JWT come out of decodeRaw as
\* they went in.
C5_JWSNeedsFetcher ==
    cred.stage # "start" =>
        /\ (isJWS(cred.bytes) /\ ~parseCredentialOpts(cred.optlist).fetcher) =>
              /\ cred.stage = "failed"
              /\ cred.err.label = "decode new credential"
              /\ ~cred.verified
              /\ cred.ran = <<"decode">>
        /\ (~isJWS(cred.bytes) /\ ~isJWTUnsecured(cred.bytes)) =>
              /\ cred.data = cred.bytes
              /\ cred.err.label # "decode new credential"

\* C5: a JWS whose signature would verify, rejected for want of a fetcher.
C5_Witness ==
    /\ cred.stage = "failed"
    /\ isJWS(cred.bytes)
    /\ cred.bytes.ok
    /\ cred.err.msg = "public key fetcher is not defined"

BaseOnlyDocument(d) ==
    /\ d.ctx \in {JStr(baseContext), JArr(<<S(baseContext)>>)}
    /\ d.typ \in {JStr(vcType), JArr(<<S(vcType)>>)}

\* C6.  In base-only mode NewCredential succeeds only on a document whose
\* @context is exactly the base context and whose type is exactly
\* VerifiableCredential.
C6_BaseOnlyRejectsExtensions ==
    (cred.stage = "done" /\ cred.opts.mode = baseContextValidation) =>
        BaseOnlyDocument(cred.data.body)

\* The caller's lists, when the options are one base-extended option.
ExtendedCall ==
    /\ Len(cred.optlist) = 1
    /\ cred.optlist[1].o = "BaseContextExtendedValidation"

\* C7.  In base-extended mode with caller lists C and T, Phase 2 accepts
\* exactly the credentials whose context entries are all in C with the base
\* context added and whose types are all in T with VerifiableCredential
\* added.
C7_ExtendedAllowLists ==
    (ExtendedCall /\ StageRan("postvalidate")) =>
        LET C == cred.optlist[1].ctxs
            T == cred.optlist[1].typs
        IN  cred.stage = "done" <=>
                /\ SeqRange(cred.vc.context) \subseteq C \cup {baseContext}
                /\ SeqRange(cred.vc.types) \subseteq T \cup {vcType}

\* C7: with no caller lists the base context and VerifiableCredential are
\* accepted.
C7_Witness ==
    /\ ExtendedCall
    /\ cred.optlist[1].ctxs = {} /\ cred.optlist[1].typs = {}
    /\ cred.stage = "done"
    /\ cred.vc.context = <<baseContext>>
    /\ cred.vc.types = <<vcType>>

\* The decoding of a document that MarshalJSON emitted for the credential
\* of a NewCredential run under the default options.
RoundTrip == cred.round = 2 /\ cred.optlist = << >> /\ cred.first.schemas = << >>

\* C8.  NewCredential of the MarshalJSON of a credential decoded under the
\* default options succeeds and yields the same credential.
C8_SerializationIdempotent ==
    RoundTrip =>
        /\ cred.stage # "failed"
        /\ cred.stage = "done" => cred.vc = cred.first

\* C9, as amended.  MarshalJSON emits the issuer as an object exactly when
\* the decoded issuer has a non-empty name, and as the bare id string
\* otherwise, whichever form the source document used.
C9_IssuerReemission ==
    cred.round = 2 =>
        LET out == cred.bytes.body.issuer
        IN  IF cred.first.issuer.name # ""
            THEN out = IssObj(MStr(cred.first.issuer.id), MStr(cred.first.issuer.name))
            ELSE out = IssStr(cred.first.issuer.id)

\* C9 as stated: a bare string for the string form, an object for the
\* object form of the source document.
C9_IssuerReemission_Original ==
    cred.round = 2 =>
        /\ cred.source.issuer.k = "str" => cred.bytes.body.issuer.k = "str"
        /\ cred.source.issuer.k = "obj" => cred.bytes.body.issuer.k = "obj"

\* C9: an issuer given as an object with a name, emitted as an object.
C9_Witness ==
    /\ cred.round = 2
    /\ cred.source.issuer = IssObj(MStr(IssuerDID), MStr("Acme"))
    /\ cred.bytes.body.issuer = cred.source.issuer

\* C10.  MarshalJSON emits @context as a bare string exactly when context
\* has one element and customContext is empty, and otherwise as the array
\* of the context strings in order followed by the customContext values in
\* order; one string followed by one object comes out as it went in.
C10_ContextReemission ==
    cred.round = 2 =>
        LET out == cred.bytes.body.ctx
            vc == cred.first
        IN  /\ out.k = "str" <=> (Len(vc.context) = 1 /\ vc.customContext = << >>)
            /\ out.k = "str" => out = JStr(vc.context[1])
            /\ out.k # "str" => out = JArr(AsStrings(vc.context) \o vc.customContext)
            /\ cred.source.ctx = JArr(<<S(baseContext), CtxObj>>) => out = cred.source.ctx

\* C10: a document whose @context is one string and one object, emitted.
C10_Witness ==
    /\ cred.round = 2
    /\ cred.source.ctx = JArr(<<S(baseContext), CtxObj>>)
    /\ cred.bytes.body.ctx = JArr(<<S(baseContext), CtxObj>>)

(***************************************************************************)
(* Claims about the composite key export and import (specification         *)
(* SpecKey).                                                               *)
(***************************************************************************)
SupportedCurve(c) == c \in CurveNames \ {"secp256k1", ""}

\* The symbolic name of the curve that a supported name stands for.
SymbolicCurve(c) ==
    CASE c \in {"secp256r1", "NIST_P256", "P-256", "EllipticCurveType_NIST_P256"} -> "NIST_P256"
      [] c \in {"secp384r1", "NIST_P384", "P-384", "EllipticCurveType_NIST_P384"} -> "NIST_P384"
      [] OTHER -> "NIST_P521"

RoundTripCall == keyio.op = "RoundTrip" /\ keyio.pc # "start"

\* C11, as amended.  For every PublicKey record of a supported curve name the
\* import succeeds, the extraction succeeds and the record returned has the
\* kid, x and y of the input, the symbolic name of the input's curve as
\* curve, and "EC" as type; so it equals the input exactly when the input
\* names its curve NIST_P256, NIST_P384 or NIST_P521 and has type "EC".
C11_KeyRoundTrip ==
    (RoundTripCall /\ SupportedCurve(keyio.pubKey.curve)) =>
        /\ keyio.pc # "failed"
        /\ keyio.pc = "extracted" =>
              /\ keyio.pk.kid = keyio.pubKey.kid
              /\ keyio.pk.x = keyio.pubKey.x
              /\ keyio.pk.y = keyio.pubKey.y
              /\ keyio.pk.curve = SymbolicCurve(keyio.pubKey.curve)
              /\ keyio.pk.type = "EC"
              /\ keyio.pk = keyio.pubKey <=>
                    /\ keyio.pubKey.curve \in {"NIST_P256", "NIST_P384", "NIST_P521"}
                    /\ keyio.pubKey.type = "EC"

\* C11 as stated: the record returned equals the input, for every supported
\* curve name.
C11_KeyRoundTrip_Original ==
    (RoundTripCall /\ SupportedCurve(keyio.pubKey.curve)) =>
        /\ keyio.pc # "failed"
        /\ keyio.pc = "extracted" => keyio.pk = keyio.pubKey

\* C11: a P-384 key given under an alias comes back under the symbolic name.
C11_Witness ==
    /\ keyio.pc = "extracted"
    /\ keyio.pubKey.curve = "secp384r1"
    /\ keyio.pubKey.type = "EC"
    /\ keyio.pk.curve = "NIST_P384"

\* The positions of the keys of the keyset that have the primary key id and
\* are enabled.
PrimaryEnabled(ks) ==
    {i \in 1..Len(ks.Key) :
        ks.Key[i].KeyId = ks.PrimaryKeyId /\ ks.Key[i].Status = "ENABLED"}
FirstOf(positions) == CHOOSE i \in positions : \A j \in positions : i <= j

\* C12.  Write writes at most one record, that of a key with the primary key
\* id and status enabled; with no such key it fails with "key not written"
\* and writes nothing; when the key selected has another type URL it fails
\* as not exportable and writes nothing, whatever keys follow; and a failed
\* Write has written nothing.
C12_WritesPrimaryEnabledOnly ==
    (keyio.op = "Write" /\ keyio.pc # "start") =>
        LET sel == PrimaryEnabled(keyio.ks)
        IN  /\ Len(keyio.w) <= 1
            /\ keyio.pc = "failed" => keyio.w = << >>
            /\ keyio.pc = "written" <=> Len(keyio.w) = 1
            /\ sel = {} => keyio.pc = "failed" /\ keyio.err.msg = "key not written"
            /\ sel # {} =>
                 LET key == keyio.ks.Key[FirstOf(sel)]
                 IN  /\ key.TypeUrl # ecdhAESPublicKeyTypeURL =>
                           /\ keyio.pc = "failed"
                           /\ keyio.err.msg = "can't export key with keyURL"
                     /\ keyio.pc = "written" =>
                           /\ key.TypeUrl = ecdhAESPublicKeyTypeURL
                           /\ keyio.w[1].pk.kid = key.Value.msg.KID

\* C12: the key selected is not exportable and an exportable enabled key
\* with the primary key id follows it; nothing is written.
C12_Witness ==
    /\ keyio.op = "Write" /\ keyio.pc = "failed"
    /\ Len(keyio.ks.Key) = 2
    /\ PrimaryEnabled(keyio.ks) = {1, 2}
    /\ keyio.ks.Key[1].TypeUrl = OtherTypeURL
    /\ writePubKey(keyio.ks.Key[2]).err = NoErr
    /\ keyio.w = << >>

(***************************************************************************)
(* Claims about CreateCustomCredential (specification SpecCustom).         *)
(***************************************************************************)
\* The position of the first producer that accepts vc, from i on; 0 when
\* none does.
RECURSIVE FirstAccepting(_, _, _)
FirstAccepting(ps, vc, i) ==
    IF i > Len(ps) THEN 0
    ELSE IF Accepts(ps[i], vc) THEN i
    ELSE FirstAccepting(ps, vc, i + 1)

AcceptCalls(n) == [j \in 1..n |-> [op |-> "Accept", p |-> j]]

\* C13.  When CreateCustomCredential returns: after a failed NewCredential
\* no producer method was invoked and the error is that of the base
\* credential; otherwise the methods invoked are Accept of the producers in
\* list order up to the first that accepts, then its Apply and nothing
\* more, the result being that Apply's credential or, if it failed, an
\* error; and when no producer accepts, every Accept was invoked once, no
\* Apply, and the base credential is returned.
C13_ProducersInOrder ==
    cred.result # NoResult =>
        IF cred.stage = "failed"
        THEN /\ cred.calls = << >>
             /\ cred.result.kind = "error"
             /\ cred.result.label = "build base verifiable credential"
        ELSE LET i == FirstAccepting(cred.producers, cred.vc, 1)
             IN  IF i = 0
                 THEN /\ cred.calls = AcceptCalls(Len(cred.producers))
                      /\ cred.result.kind = "base"
                 ELSE /\ cred.calls = Append(AcceptCalls(i), [op |-> "Apply", p |-> i])
                      /\ cred.result.by = i
                      /\ IF cred.producers[i].applyOK
                         THEN cred.result.kind = "custom"
                         ELSE /\ cred.result.kind = "error"
                              /\ cred.result.label = "build extended verifiable credential"

\* C13: the second of three producers accepts, its Apply fails, and the
\* third, which would accept and succeed, is never consulted.
C13_Witness ==
    /\ cred.result.kind = "error"
    /\ cred.result.by = 2
    /\ Len(cred.producers) = 3
    /\ Accepts(cred.producers[3], cred.vc)
    /\ cred.producers[3].applyOK
    /\ Len(cred.calls) = 3

(***************************************************************************)
(* Further claims about NewCredential (specification SpecCred).            *)
(***************************************************************************)
\* The minimal credential: @context [base context], type the one-element
\* array [VerifiableCredential], issuer the string did:example:123.
SeedOne ==
    /\ cred.round = 1
    /\ cred.optlist = << >>
    /\ cred.bytes = JSONBytes(ArrayTypeDoc(JAbsent))

\* C14.  NewCredential with the default options on the minimal credential
\* succeeds, with issuer id did:example:123 and an empty issuer name.
C14_SeedScenarioOne ==
    SeedOne =>
        /\ cred.stage # "failed"
        /\ cred.stage = "done" => cred.vc.issuer = [id |-> IssuerDID, name |-> ""]

\* The answer of the HTTP client to the GET of this run, when one was issued.
Fetched == cred.http # << >>
Answer == cred.resp[cred.http[1]]

\* C15.  When the GET of a declared schema meets a transport failure or a
\* status other than 200, NewCredential fails in its validate stage (the
\* error carrying the status code in the second case), no loader is chosen
\* (neither the default schema nor a later declared schema), exactly one
\* GET was issued, and the cache holds nothing for that URL.
C15_FetchFailure ==
    (Fetched /\ (Answer.transport \/ Answer.status # StatusOK)) =>
        /\ cred.stage = "failed"
        /\ cred.err.label = "validate new credential"
        /\ ~Answer.transport => cred.err.code = Answer.status
        /\ cred.loader = NoLoader
        /\ Len(cred.http) = 1
        /\ cache[cred.http[1]] = NoEntry

\* C15: the first declared schema answers 404 through a loader with a cache,
\* and a second declared schema of the supported type is left alone.
C15_Witness ==
    /\ Fetched
    /\ Answer.status = 404
    /\ cred.opts.cacheWired
    /\ Len(cred.schemas) = 2
    /\ cred.schemas[2].type = jsonSchema2018Type
    /\ cred.http = <<cred.schemas[1].id>>
    /\ cred.stage = "failed"

KnownModes == {baseContextValidation, baseContextExtendedValidation, jsonldValidation}

\* The mode that the last mode option of a list selects; JSON-LD when the
\* list has none.
RECURSIVE LastMode(_)
LastMode(list) ==
    IF list = << >> THEN jsonldValidation
    ELSE LET o == list[Len(list)]
         IN  CASE o.o = "JSONLDValidation" -> jsonldValidation
               [] o.o = "BaseContextValidation" -> baseContextValidation
               [] o.o = "BaseContextExtendedValidation" -> baseContextExtendedValidation
               [] OTHER -> LastMode(SubSeq(list, 1, Len(list) - 1))

\* C16.  The options leave exactly one of the three modes active: JSON-LD
\* without a mode option, else the mode of the last mode option.  Phase 2
\* succeeds under JSON-LD whatever the credential, runs the checks of the
\* active mode alone under the other two, and fails with "unsupported
\* vcModelValidationMode" for every other value of the mode.
C16_OneModeActive ==
    /\ StageRan("options") =>
          /\ cred.opts.mode \in KnownModes
          /\ cred.opts.mode = LastMode(cred.optlist)
    /\ StageRan("postvalidate") =>
          /\ cred.stage \in {"done", "failed"}
          /\ cred.opts.mode = jsonldValidation => cred.stage = "done"
          /\ cred.opts.mode = baseContextValidation =>
                (cred.stage = "done" <=>
                    cred.vc.types = <<vcType>> /\ cred.vc.context = <<baseContext>>)
          /\ cred.opts.mode = baseContextExtendedValidation =>
                (cred.stage = "done" <=>
                    /\ \A i \in 1..Len(cred.vc.context) :
                          cred.vc.context[i] \in cred.opts.allowedCustomContexts
                    /\ \A i \in 1..Len(cred.vc.types) :
                          cred.vc.types[i] \in cred.opts.allowedCustomTypes)
          /\ cred.opts.mode \notin KnownModes =>
                /\ cred.stage = "failed"
                /\ cred.err.msg = "unsupported vcModelValidationMode"

\* C16: a mode value that no option sets, refused by Phase 2.
C16_Witness ==
    /\ StageRan("postvalidate")
    /\ cred.opts.mode = MaxMode
    /\ cred.stage = "failed"
    /\ cred.err.msg = "unsupported vcModelValidationMode"

StageOrder == <<"decode", "unmarshal", "load", "validate", "build", "postvalidate">>
StageLabels ==
    <<"decode new credential", "unmarshal new credential",
      "load schemas of new credential", "validate new credential",
      "build new credential">>

\* C17.  The stages that have run are an initial part of decode, unmarshal,
\* load, validate, build, postvalidate; a failure is that of the last stage
\* run, returns no credential, and carries that stage's label when it is
\* one of the first five; a decode or unmarshal failure (a JWS without a
\* fetcher, an envelope that does not decode, malformed JSON) stops the run
\* there; no schema is looked up or fetched before validate; Phase 2 runs
\* only on a document that passed Phase 1; and a credential is returned
\* only after all six stages.
C17_StageOrder ==
    LET n == Len(cred.ran)
    IN  /\ n <= Len(StageOrder)
        /\ cred.ran = SubSeq(StageOrder, 1, n)
        /\ cred.stage = "failed" =>
              /\ n >= 1
              /\ Returned(cred) = NoVC
              /\ n <= Len(StageLabels) => cred.err.label = StageLabels[n]
        /\ (n >= 1 /\ (isJWS(cred.bytes) \/ isJWTUnsecured(cred.bytes)) /\ ~cred.bytes.ok) =>
              cred.stage = "failed" /\ n = 1
        /\ (n >= 2 /\ ~cred.bytes.wellFormed) => cred.stage = "failed" /\ n = 2
        /\ (cred.http # << >> \/ cred.gets # << >>) => StageRan("validate")
        /\ StageRan("postvalidate") => LoaderValid(cred.loader, cred.data.body)
        /\ Returned(cred) # NoVC => cred.stage = "done" /\ cred.ran = StageOrder

\* C17: a document that fails Phase 1 against the default schema: four
\* stages ran and the error carries the label of validate.
C17_Witness ==
    /\ cred.stage = "failed"
    /\ cred.ran = SubSeq(StageOrder, 1, 4)
    /\ cred.loader = DefaultLoader
    /\ cred.err.label = "validate new credential"

\* C18.  Once the schema has been resolved, the response body was closed
\* exactly once if the HTTP client returned a response, whatever its status
\* and whether or not the body could be read, and never otherwise.
C18_BodyClosedOnce ==
    StageRan("validate") =>
        cred.closes = (IF Fetched /\ ~Answer.transport THEN 1 ELSE 0)

\* C18: a response whose body cannot be read, closed once.
C18_Witness ==
    /\ StageRan("validate")
    /\ Fetched
    /\ Answer.readErr
    /\ cred.closes = 1

C20_NoMembersAdded ==
    (cred.round = 2 /\ cred.source.schema = JAbsent) =>
        /\ cred.first.schemas = << >>
        /\ cred.bytes.body.schema = JAbsent

====
